---- MODULE Spec2Model ----
(***************************************************************************)
(* Model of server/matchmaker.py (class MatchMaker) and of the snapshot    *)
(* persistence it uses from server/mongo_helpers.py.                       *)
(*                                                                         *)
(* Spec follows one MatchMaker instance.  Every public method is one       *)
(* action that includes the _commit_changes call (retention pruning,       *)
(* de-duplication, the matching pipeline with its radius widening, and     *)
(* the snapshot write) the method ends with.  SpecTwo follows two          *)
(* instances that share the snapshot collection, request by request, and   *)
(* SpecFlow follows the max-flow solver on one network, path by path.      *)
(*                                                                         *)
(* Ride, Driver, get_distance_between and ford_fulkerson are imported by   *)
(* matchmaker.py from modules that are not part of the source tree at      *)
(* hand; they are modelled from the specification document.                *)
(***************************************************************************)
EXTENDS Integers, Sequences, FiniteSets, TLC

(***************************************************************************)
(* Program constants.                                                      *)
(***************************************************************************)
RetentionDays == 2
WidenLimit == 80
MaxUnmatched == 200
DefaultMaxDist == 10
DefaultPerDriver == 200
DefaultPerRide == 5

(***************************************************************************)
(* Bounds of the model.                                                    *)
(***************************************************************************)
\* number of nested radius-widening re-runs the interpreter's call stack
\* admits before it raises RecursionError
RecursionLimit == 4
\* number of steps (calls made on the instance, days that pass) in one run
\* of the model
MaxSteps == 3

(***************************************************************************)
(* Input domains.                                                          *)
(***************************************************************************)
None == "None"
DriverIds == {"d1", "d2"}
RideIds == {"r1", "r2"}

\* a freshly constructed Driver: no committed rides
NewDriver(id, address) ==
    [id |-> id, address |-> address, unavailable_timings |-> <<>>]

\* a freshly constructed Ride: unassigned, no candidates
NewRide(id, pickup, start, end) ==
    [id |-> id, pickup_address |-> pickup, ride_start |-> start,
     ride_end |-> end, assigned_driver |-> None, possible_drivers |-> <<>>]

\* two records share the id d1 and two share the id r1
DriverCatalog ==
    {NewDriver("d1", 0), NewDriver("d2", 5), NewDriver("d1", 30)}

\* times are days; the first r1 ends a day before the clock starts
RideCatalog ==
    {NewRide("r1", 0, -2, -1), NewRide("r2", 30, -2, 0), NewRide("r1", 5, 0, 1)}

\* the lists add_rides and add_drivers are called with
DriverBatches ==
    {<<d>> : d \in DriverCatalog}
RideBatches ==
    {<<r>> : r \in RideCatalog}
    \cup {<<NewRide("r1", 0, -2, -1), NewRide("r2", 30, -2, 0)>>,
          <<NewRide("r1", 0, -2, -1), NewRide("r1", 5, 0, 1)>>,
          <<NewRide("r2", 30, -2, 0), NewRide("r1", 5, 0, 1)>>}

\* arguments a caller passes to match()
MatchDists == {-1, 0, DefaultMaxDist, 40}
\* <<max_ride_pairings_per_driver, max_suggested_drivers_per_ride>>
MatchCaps == {<<1, 1>>, <<DefaultPerDriver, DefaultPerRide>>}

(***************************************************************************)
(* Helpers of the collaborators.                                           *)
(***************************************************************************)
\* maps_api.get_distance_between: addresses are points on a line
get_distance_between(a, b) == IF a < b THEN b - a ELSE a - b

\* two closed time intervals share more than an end point
Overlaps(s1, e1, s2, e2) == s1 < e2 /\ s2 < e1

\* Driver.get_conflicting_rides: ids of the committed rides that overlap ride
get_conflicting_rides(driver, ride) ==
    LET hit(t) == Overlaps(t[1], t[2], ride.ride_start, ride.ride_end)
        RECURSIVE ids(_)
        ids(ts) == IF ts = <<>> THEN <<>>
                   ELSE (IF hit(Head(ts)) THEN <<Head(ts)[3]>> ELSE <<>>)
                        \o ids(Tail(ts))
    IN ids(driver.unavailable_timings)

\* Driver.add_accepted_ride: the driver after accepting ride, or the driver
\* unchanged with ok = FALSE when the ride overlaps a committed interval
add_accepted_ride(driver, ride) ==
    IF get_conflicting_rides(driver, ride) # <<>>
    THEN [ok |-> FALSE, driver |-> driver]
    ELSE [ok |-> TRUE,
          driver |-> [driver EXCEPT !.unavailable_timings =
                        Append(@, <<ride.ride_start, ride.ride_end, ride.id>>)]]

\* Ride.assign_driver
assign_driver(ride, driver) == [ride EXCEPT !.assigned_driver = driver.id]

Ids(s) == {s[i].id : i \in DOMAIN s}

\* next((x for x in s if x.id == id), None) as an index, 0 for None
Find(s, id) ==
    IF \E i \in DOMAIN s : s[i].id = id
    THEN CHOOSE i \in DOMAIN s :
            s[i].id = id /\ \A k \in DOMAIN s : s[k].id = id => i <= k
    ELSE 0

(***************************************************************************)
(* Retention and de-duplication (run by every commit).                     *)
(***************************************************************************)
\* rides whose end is less than RetentionDays days before now t are kept
_remove_old_rides(rs, t) ==
    LET keep(r) == t - r.ride_end < RetentionDays
    IN SelectSeq(rs, keep)

RECURSIVE UniqueById(_, _)
\* the records of s whose id is not in seen and not earlier in s, in order
UniqueById(s, seen) ==
    IF s = <<>> THEN <<>>
    ELSE IF Head(s).id \in seen THEN UniqueById(Tail(s), seen)
    ELSE <<Head(s)>> \o UniqueById(Tail(s), seen \cup {Head(s).id})

RECURSIVE Reverse(_)
Reverse(s) == IF s = <<>> THEN <<>> ELSE Append(Reverse(Tail(s)), Head(s))

\* mutant of FirstSeen: the last record of each id is the one kept
LastSeen(s) == Reverse(UniqueById(Reverse(s), {}))

\* the loops of _make_unique: the first record of each id is kept
FirstSeen(s) == UniqueById(s, {})

\* mutant of PurgeRejected: nothing is purged
PurgeNothing(rej, rs) == rej

\* the pairs whose ride id is the id of a ride of rs
PurgeRejected(rej, rs) == {pair \in rej : pair[2] \in Ids(rs)}

_make_unique(rs, ds, rej) ==
    LET new_rides == FirstSeen(rs)
        new_drivers == FirstSeen(ds)
    IN [rides |-> new_rides, drivers |-> new_drivers,
        rejected |-> PurgeRejected(rej, new_rides)]

(***************************************************************************)
(* The matching pipeline.                                                  *)
(***************************************************************************)
\* indices (into rs) of the rides with no assigned driver, in order:
\* self.unmatched_rides
UnmatchedRides(rs) ==
    LET RECURSIVE from(_)
        from(i) == IF i > Len(rs) THEN <<>>
                   ELSE (IF rs[i].assigned_driver = None THEN <<i>> ELSE <<>>)
                        \o from(i + 1)
    IN from(1)

\* the rides after _filter_unmatched_rides: the candidate lists of the
\* unassigned rides are cleared, those of the assigned rides are left alone
_filter_unmatched_rides(rs) ==
    [i \in DOMAIN rs |->
        IF rs[i].assigned_driver = None
        THEN [rs[i] EXCEPT !.possible_drivers = <<>>]
        ELSE rs[i]]

_is_suitable(driver, ride, dist_limit, rej) ==
    LET dist_check ==
            get_distance_between(driver.address, ride.pickup_address) < dist_limit
        reject_check == <<driver.id, ride.id>> \notin rej
    IN dist_check /\ reject_check

\* the network match() builds: source -> driver i with capacity
\* per_driver, driver i -> unmatched ride j with capacity 1 for the suitable
\* pairs, unmatched ride j -> sink with capacity per_ride
BuildGraph(rs, ds, rej, max_dist, per_driver, per_ride) ==
    LET um == UnmatchedRides(rs)
    IN [nd |-> Len(ds), nr |-> Len(um),
        source |-> per_driver, sink |-> per_ride,
        edges |-> {e \in (DOMAIN ds) \X (DOMAIN um) :
                      _is_suitable(ds[e[1]], rs[um[e[2]]], max_dist, rej)}]

\* an integral flow of the network, given by the driver -> ride edges that
\* carry their unit
IsFlow(g, F) ==
    /\ F \subseteq g.edges
    /\ \A i \in 1..g.nd : Cardinality({e \in F : e[1] = i}) <= g.source
    /\ \A j \in 1..g.nr : Cardinality({e \in F : e[2] = j}) <= g.sink

\* ford_fulkerson: the solver stops when no augmenting path is left, that
\* is at a maximum flow; which one depends on its path-finding order.
\* The result is the set of saturated driver -> ride edges (residual 0).
ford_fulkerson(g) ==
    IF IsFlow(g, g.edges)
    THEN {g.edges}   \* every edge carries its unit: the only maximum flow
    ELSE LET flows == {F \in SUBSET g.edges : IsFlow(g, F)}
             value == CHOOSE n \in 0..Cardinality(g.edges) :
                         /\ \E F \in flows : Cardinality(F) = n
                         /\ \A F \in flows : Cardinality(F) <= n
         IN {F \in flows : Cardinality(F) = value}

\* possible_drivers.append(entry) followed by the stable sort on distance
AppendSorted(list, entry) ==
    LET le == SelectSeq(list, LAMBDA x : x.distance <= entry.distance)
        gt == SelectSeq(list, LAMBDA x : x.distance > entry.distance)
    IN le \o <<entry>> \o gt

\* the loop of _interpret_matches: drivers in list order, and for each the
\* saturated edges in ride order
InterpretLoop(rs, ds, F) ==
    LET um == UnmatchedRides(rs)
        cand(d, j) ==
            [driver |-> ds[d].id,
             distance |-> get_distance_between(ds[d].address,
                                               rs[um[j]].pickup_address),
             conflicts |-> get_conflicting_rides(ds[d], rs[um[j]])]
        RECURSIVE forDriver(_, _)
        forDriver(d, list_j) ==
            \* list_j = <<j, list>>: the candidates of unmatched ride j so far
            IF d > Len(ds) THEN list_j[2]
            ELSE forDriver(d + 1,
                    <<list_j[1],
                      IF <<d, list_j[1]>> \in F
                      THEN AppendSorted(list_j[2], cand(d, list_j[1]))
                      ELSE list_j[2]>>)
    IN [i \in DOMAIN rs |->
          IF \E j \in DOMAIN um : um[j] = i
          THEN LET j == CHOOSE j \in DOMAIN um : um[j] = i
               IN [rs[i] EXCEPT !.possible_drivers =
                                   forDriver(1, <<j, rs[i].possible_drivers>>)]
          ELSE rs[i]]

\* len(self.matches): the unmatched rides with at least one saturated edge
NumMatches(F) == Cardinality({e[2] : e \in F})

\* mutant of Widen: the pipeline is never re-run
NeverWiden(F, nr, match_dist) == FALSE

\* the retry test of _interpret_matches
Widen(F, nr, match_dist) ==
    NumMatches(F) < nr /\ nr <= MaxUnmatched /\ match_dist < WidenLimit

\* the entry _interpret_matches logs at the end of its loop
MatchSummary(match_dist, made, unmatched) ==
    [kind |-> "match summary", distance_limit |-> match_dist,
     matches_made |-> made, rides_unmatched |-> unmatched]

\* the entry a public method logs about itself
OperationEntry == [kind |-> "operation"]

\* mutant of MatchSkipped: the pipeline runs on every call
NeverSkipped(chg, force_match) == FALSE

\* the early return of match()
MatchSkipped(chg, force_match) == ~chg /\ ~force_match

\* ceil(match_dist * 2) for an integer threshold
WidenedDist(match_dist) == 2 * match_dist

RECURSIVE Pipeline(_, _, _, _, _, _, _)
\* match() past its early return, together with the re-run that
\* _interpret_matches starts: the re-run is match(ceil(match_dist * 2),
\* force_match=True), so it runs with the default caps.  depth counts the
\* re-runs on the call stack.  The result is the set of possible outcomes
\* (one per choice of maximum flow in each pass).
Pipeline(rs, ds, rej, max_dist, per_driver, per_ride, depth) ==
    LET filtered == _filter_unmatched_rides(rs)
        g == BuildGraph(filtered, ds, rej, max_dist, per_driver, per_ride)
        after(F) ==
            LET done == InterpretLoop(filtered, ds, F)
                entry == MatchSummary(max_dist, NumMatches(F),
                                      g.nr - NumMatches(F))
                here(ret) == [rides |-> done, returned |-> ret,
                              passes |-> depth + 1, dist |-> max_dist,
                              log |-> <<entry>>]
            IN IF Widen(F, g.nr, max_dist)
               THEN IF depth >= RecursionLimit
                    THEN {here(FALSE)}
                    ELSE {[o EXCEPT !.log = <<entry>> \o @] :
                            o \in Pipeline(done, ds, rej,
                                           WidenedDist(max_dist),
                                           DefaultPerDriver, DefaultPerRide,
                                           depth + 1)}
               ELSE {here(TRUE)}
    IN UNION {after(F) : F \in ford_fulkerson(g)}

\* mutant of match: the changed flag is left as it was
keep_flag(rs, ds, rej, chg, max_dist, per_driver, per_ride, force_match) ==
    IF MatchSkipped(chg, force_match)
    THEN {[rides |-> rs, changed |-> chg, ran |-> FALSE, returned |-> TRUE,
           passes |-> 0, dist |-> max_dist, log |-> <<>>]}
    ELSE {[rides |-> o.rides, changed |-> chg,
           ran |-> TRUE, returned |-> o.returned,
           passes |-> o.passes, dist |-> o.dist, log |-> o.log] :
             o \in Pipeline(rs, ds, rej, max_dist, per_driver, per_ride, 0)}

\* match(max_dist, max_ride_pairings_per_driver,
\*       max_suggested_drivers_per_ride, force_match) on the store
\* (rs, ds, rej) with flag chg.  returned = FALSE: the call raised
\* RecursionError, and no statement after the failing call ran.
match(rs, ds, rej, chg, max_dist, per_driver, per_ride, force_match) ==
    IF MatchSkipped(chg, force_match)
    THEN {[rides |-> rs, changed |-> chg, ran |-> FALSE, returned |-> TRUE,
           passes |-> 0, dist |-> max_dist, log |-> <<>>]}
    ELSE {[rides |-> o.rides,
           changed |-> IF o.returned THEN FALSE ELSE chg,
           ran |-> TRUE, returned |-> o.returned,
           passes |-> o.passes, dist |-> o.dist, log |-> o.log] :
             o \in Pipeline(rs, ds, rej, max_dist, per_driver, per_ride, 0)}

(***************************************************************************)
(* The outcome of a method call: the fields of the instance after it,      *)
(* whether it wrote a snapshot (saved), its return value (ok; TRUE for     *)
(* the methods that return None), whether it returned at all, the number   *)
(* of pipeline passes it made and the entries it wrote to the operation    *)
(* log (the instance has a requester), in order.                           *)
(***************************************************************************)
\* what a commit discarded: rides dropped by retention, duplicate records
\* dropped, rejected pairs purged
NoGc == [pruned |-> 0, dups |-> 0, purged |-> 0]

Outcome(rs, ds, rej, chg, saved, ok, returned, passes, logs) ==
    [rides |-> rs, drivers |-> ds, rejected |-> rej, changed |-> chg,
     saved |-> saved, ok |-> ok, returned |-> returned,
     passes |-> passes, logs |-> logs, gc |-> NoGc]

\* mutant of _commit_changes: the caller logs nothing after the commit
commit_unlogged(rs, ds, rej, t) ==
    LET u == _make_unique(_remove_old_rides(rs, t), ds, rej)
    IN {Outcome(m.rides, u.drivers, u.rejected, m.changed, m.returned, TRUE,
                m.returned, m.passes, m.log) :
          m \in match(u.rides, u.drivers, u.rejected, TRUE, DefaultMaxDist,
                      DefaultPerDriver, DefaultPerRide, FALSE)}

\* _commit_changes at time t, followed by the caller's _log_operation
_commit_changes(rs, ds, rej, t) ==
    LET pruned == _remove_old_rides(rs, t)
        u == _make_unique(pruned, ds, rej)
        gc == [pruned |-> Len(rs) - Len(pruned),
               dups |-> (Len(pruned) - Len(u.rides))
                        + (Len(ds) - Len(u.drivers)),
               purged |-> Cardinality(rej) - Cardinality(u.rejected)]
    IN {[Outcome(m.rides, u.drivers, u.rejected, m.changed, m.returned, TRUE,
                 m.returned, m.passes,
                 m.log \o (IF m.returned THEN <<OperationEntry>> ELSE <<>>))
            EXCEPT !.gc = gc] :
          m \in match(u.rides, u.drivers, u.rejected, TRUE, DefaultMaxDist,
                      DefaultPerDriver, DefaultPerRide, FALSE)}

\* a method that fails: one log entry, nothing else
Failed(rs, ds, rej, chg) ==
    {Outcome(rs, ds, rej, chg, FALSE, FALSE, TRUE, 0, <<OperationEntry>>)}

delete_ride(rs, ds, rej, chg, t, ride_id) ==
    LET rs2 == SelectSeq(rs, LAMBDA r : r.id # ride_id)
        ds2 == [i \in DOMAIN ds |->
                  [ds[i] EXCEPT !.unavailable_timings =
                      SelectSeq(@, LAMBDA tm : tm[3] # ride_id)]]
    IN _commit_changes(rs2, ds2, rej, t)

delete_driver(rs, ds, rej, chg, t, driver_id) ==
    LET ds2 == SelectSeq(ds, LAMBDA d : d.id # driver_id)
        rs2 == [i \in DOMAIN rs |->
                  IF rs[i].assigned_driver # None
                     /\ rs[i].assigned_driver = driver_id
                  THEN [rs[i] EXCEPT !.assigned_driver = None]
                  ELSE rs[i]]
    IN _commit_changes(rs2, ds2, rej, t)

add_rides(rs, ds, rej, chg, t, new_rides) ==
    _commit_changes(rs \o new_rides, ds, rej, t)

add_drivers(rs, ds, rej, chg, t, new_drivers) ==
    _commit_changes(rs, ds \o new_drivers, rej, t)

\* mutant of assign_driver_to_ride: the ride is assigned before the
\* driver's conflict check, and the assignment is not undone on a conflict
assign_before_check(rs, ds, rej, chg, t, driver_id, ride_id) ==
    LET di == Find(ds, driver_id)
        ri == Find(rs, ride_id)
    IN IF di # 0 /\ ri # 0
       THEN LET acc == add_accepted_ride(ds[di], rs[ri])
                rs2 == [rs EXCEPT ![ri] = assign_driver(@, ds[di])]
            IN IF acc.ok
               THEN _commit_changes(rs2, [ds EXCEPT ![di] = acc.driver], rej, t)
               ELSE Failed(rs2, ds, rej, chg)
       ELSE Failed(rs, ds, rej, chg)

\* mutant of assign_driver_to_ride: the ride is accepted without the
\* driver's conflict check
assign_unchecked(rs, ds, rej, chg, t, driver_id, ride_id) ==
    LET di == Find(ds, driver_id)
        ri == Find(rs, ride_id)
    IN IF di # 0 /\ ri # 0
       THEN LET d2 == [ds[di] EXCEPT !.unavailable_timings =
                          Append(@, <<rs[ri].ride_start, rs[ri].ride_end,
                                      rs[ri].id>>)]
            IN _commit_changes([rs EXCEPT ![ri] = assign_driver(@, ds[di])],
                               [ds EXCEPT ![di] = d2], rej, t)
       ELSE Failed(rs, ds, rej, chg)

assign_driver_to_ride(rs, ds, rej, chg, t, driver_id, ride_id) ==
    LET di == Find(ds, driver_id)
        ri == Find(rs, ride_id)
    IN IF di # 0 /\ ri # 0
       THEN LET acc == add_accepted_ride(ds[di], rs[ri])
            IN IF acc.ok
               THEN _commit_changes([rs EXCEPT ![ri] = assign_driver(@, ds[di])],
                                    [ds EXCEPT ![di] = acc.driver], rej, t)
               ELSE Failed(rs, ds, rej, chg)
       ELSE Failed(rs, ds, rej, chg)

\* mutant of remove_driver_from_ride: the ride is released whichever driver
\* it is assigned to
remove_any_driver(rs, ds, rej, chg, t, driver_id, ride_id) ==
    LET di == Find(ds, driver_id)
        ri == Find(rs, ride_id)
    IN IF di # 0 /\ ri # 0 /\ rs[ri].assigned_driver # None
       THEN LET d2 == [ds[di] EXCEPT !.unavailable_timings =
                          SelectSeq(@, LAMBDA tm : tm[3] # ride_id)]
            IN _commit_changes([rs EXCEPT ![ri].assigned_driver = None],
                               [ds EXCEPT ![di] = d2], rej, t)
       ELSE Failed(rs, ds, rej, chg)

remove_driver_from_ride(rs, ds, rej, chg, t, driver_id, ride_id) ==
    LET di == Find(ds, driver_id)
        ri == Find(rs, ride_id)
    IN IF di # 0 /\ ri # 0 /\ rs[ri].assigned_driver # None
          /\ rs[ri].assigned_driver = ds[di].id
       THEN LET d2 == [ds[di] EXCEPT !.unavailable_timings =
                          SelectSeq(@, LAMBDA tm : tm[3] # ride_id)]
            IN _commit_changes([rs EXCEPT ![ri].assigned_driver = None],
                               [ds EXCEPT ![di] = d2], rej, t)
       ELSE Failed(rs, ds, rej, chg)

\* mutant of add_rejected_pairing: the pair is added after the commit
reject_after_commit(rs, ds, rej, chg, t, driver_id, ride_id) ==
    {[o EXCEPT !.rejected = @ \cup {<<driver_id, ride_id>>}] :
        o \in _commit_changes(rs, ds, rej, t)}

add_rejected_pairing(rs, ds, rej, chg, t, driver_id, ride_id) ==
    _commit_changes(rs, ds, rej \cup {<<driver_id, ride_id>>}, t)

(***************************************************************************)
(* State: the fields of the MatchMaker instance, the latest document of    *)
(* the rides_and_drivers collection, the clock, a record of the last call  *)
(* made on the instance, and the number of steps taken so far.              *)
(***************************************************************************)
VARIABLES rides, drivers, rejected, changed, snapshot, now, last, steps

\* The rides_and_drivers collection with the instances that share it (db,
\* inst), and a run of the max-flow solver on one network (net); they are
\* at rest while the single instance above is followed.
VARIABLES db, inst, net

vars ==
    <<rides, drivers, rejected, changed, snapshot, now, last, steps,
      db, inst, net>>

\* the single instance, at rest
one == <<rides, drivers, rejected, changed, snapshot, now, last, steps>>

\* the ids of the instances that share the collection
Instances == {1, 2}

\* an empty collection; ids are given out in insertion order
EmptyDb == [coll |-> <<>>, nextId |-> 1, lastWriter |-> 0]

\* what get_latest returns on an empty collection
NoDoc == [id |-> 0, data |-> [rides |-> <<>>, drivers |-> <<>>, rejected |-> {}]]

\* an instance constructed on an empty collection
FreshInstance ==
    [mem |-> NoDoc.data, pc |-> "idle", found |-> NoDoc, base |-> 0,
     wrote |-> FALSE]

\* no network is being solved
NoNet == [g |-> [nd |-> 0, nr |-> 0, source |-> 0, sink |-> 0, edges |-> {}],
          F |-> {}, done |-> TRUE]

\* the collection with the instances sharing it, and the solver, at rest
DbIdle == db = EmptyDb /\ inst = [i \in Instances |-> FreshInstance]
NetIdle == net = NoNet

NoArgs ==
    [dist |-> 0, per_driver |-> 0, per_ride |-> 0, force |-> FALSE,
     driver_id |-> None, ride_id |-> None]

\* pickle.dumps of the three collections, as add_to_db stores them
Dump(rs, ds, rej) == [rides |-> rs, drivers |-> ds, rejected |-> rej]

\* again: the call before this one was a call of the same method
Call(op, args, o, again) ==
    [op |-> op, args |-> args, ok |-> o.ok, returned |-> o.returned,
     saved |-> o.saved, passes |-> o.passes, logs |-> o.logs,
     gc |-> o.gc, again |-> again]

\* the instance and the collection after a call with outcome o
Apply(op, args, o) ==
    /\ rides' = o.rides
    /\ drivers' = o.drivers
    /\ rejected' = o.rejected
    /\ changed' = o.changed
    /\ snapshot' = IF o.saved THEN Dump(o.rides, o.drivers, o.rejected)
                   ELSE snapshot
    /\ last' = Call(op, args, o, last.op = op)
    /\ steps' = steps + 1
    /\ UNCHANGED <<now, db, inst, net>>

\* the documents the collection may hold when the first instance is
\* constructed: none, or the snapshot that an earlier instance wrote when
\* add_drivers was called on the empty store with two drivers
Snapshots ==
    {Dump(<<>>, <<>>, {})}
    \cup {Dump(o.rides, o.drivers, o.rejected) :
             o \in add_drivers(<<>>, <<>>, {}, FALSE, 0,
                               <<NewDriver("d1", 0), NewDriver("d2", 5)>>)}

\* __init__: get_latest returns {} or the latest snapshot
Init ==
    /\ snapshot \in Snapshots
    /\ rides = snapshot.rides
    /\ drivers = snapshot.drivers
    /\ rejected = snapshot.rejected
    /\ changed = FALSE
    /\ now = 0
    /\ steps = 0
    /\ DbIdle
    /\ NetIdle
    /\ last = Call("init", NoArgs,
                   Outcome(rides, drivers, rejected, FALSE, FALSE, TRUE, TRUE,
                           0, <<>>),
                   FALSE)

\* a new instance is constructed from the latest snapshot
NewInstance ==
    /\ steps < MaxSteps
    /\ \E o \in {Outcome(snapshot.rides, snapshot.drivers, snapshot.rejected,
                      FALSE, FALSE, TRUE, TRUE, 0, <<>>)} :
        Apply("init", NoArgs, o)

\* add_rides(b)
AddRidesCall(b) ==
    /\ steps < MaxSteps
    /\ \E o \in add_rides(rides, drivers, rejected, changed, now, b) :
          Apply("add_rides", NoArgs, o)

AddRides == \E b \in RideBatches : AddRidesCall(b)

\* add_drivers(b)
AddDriversCall(b) ==
    /\ steps < MaxSteps
    /\ \E o \in add_drivers(rides, drivers, rejected, changed, now, b) :
          Apply("add_drivers", NoArgs, o)

AddDrivers == \E b \in DriverBatches : AddDriversCall(b)

DeleteRide ==
    /\ steps < MaxSteps
    /\ \E r \in RideIds :
        \E o \in delete_ride(rides, drivers, rejected, changed, now, r) :
            Apply("delete_ride", [NoArgs EXCEPT !.ride_id = r], o)

DeleteDriver ==
    /\ steps < MaxSteps
    /\ \E d \in DriverIds :
        \E o \in delete_driver(rides, drivers, rejected, changed, now, d) :
            Apply("delete_driver", [NoArgs EXCEPT !.driver_id = d], o)

AssignDriverToRide ==
    /\ steps < MaxSteps
    /\ \E d \in DriverIds, r \in RideIds :
        \E o \in assign_driver_to_ride(rides, drivers, rejected, changed,
                                       now, d, r) :
            Apply("assign_driver_to_ride",
                  [NoArgs EXCEPT !.driver_id = d, !.ride_id = r], o)

RemoveDriverFromRide ==
    /\ steps < MaxSteps
    /\ \E d \in DriverIds, r \in RideIds :
        \E o \in remove_driver_from_ride(rides, drivers, rejected, changed,
                                         now, d, r) :
            Apply("remove_driver_from_ride",
                  [NoArgs EXCEPT !.driver_id = d, !.ride_id = r], o)

AddRejectedPairing ==
    /\ steps < MaxSteps
    /\ \E d \in DriverIds, r \in RideIds :
        \E o \in add_rejected_pairing(rides, drivers, rejected, changed,
                                      now, d, r) :
            Apply("add_rejected_pairing",
                  [NoArgs EXCEPT !.driver_id = d, !.ride_id = r], o)

Match ==
    /\ steps < MaxSteps
    /\ \E dist \in MatchDists, caps \in MatchCaps, force \in BOOLEAN :
        \E m \in match(rides, drivers, rejected, changed, dist, caps[1],
                        caps[2], force) :
            Apply("match",
                  [NoArgs EXCEPT !.dist = dist, !.per_driver = caps[1],
                                 !.per_ride = caps[2], !.force = force],
                  Outcome(m.rides, drivers, rejected, m.changed, FALSE, TRUE,
                          m.returned, m.passes, m.log))

\* a day passes
Tick ==
    /\ steps < MaxSteps
    /\ steps' = steps + 1
    /\ now' = now + 1
    /\ UNCHANGED <<rides, drivers, rejected, changed, snapshot, last>>
    /\ UNCHANGED <<db, inst, net>>

Next ==
    \/ NewInstance
    \/ AddRides
    \/ AddDrivers
    \/ DeleteRide
    \/ DeleteDriver
    \/ AssignDriverToRide
    \/ RemoveDriverFromRide
    \/ AddRejectedPairing
    \/ Match
    \/ Tick

Spec == Init /\ [][Next]_vars

(***************************************************************************)
(* Two instances on one rides_and_drivers collection.  Constructing an     *)
(* instance calls get_latest, which reads the newest document and then, in *)
(* a second request, deletes every other document; a method that commits   *)
(* inserts one document.  Requests of different instances interleave.      *)
(***************************************************************************)
\* number of documents inserted in one run of the model
MaxDocs == 3

\* the lists the two instances call add_rides and add_drivers with
SharedRideBatches ==
    {<<NewRide("r2", 30, -2, 0)>>, <<NewRide("r1", 5, 0, 1)>>}
SharedDriverBatches == {<<NewDriver("d1", 0)>>}

\* collection.insert_one(document): the document gets the next _id
add_to_db(coll, id, document) == Append(coll, [id |-> id, data |-> document])

\* mutant of Newest: the sort on _id is ascending
Oldest(coll) == coll[1]

\* next(collection.find().sort('_id', -1))
Newest(coll) == coll[Len(coll)]

\* collection.delete_many({'_id': {'$ne': id}})
DeleteOthers(coll, id) == SelectSeq(coll, LAMBDA doc : doc.id = id)

\* get_latest, first request: on an empty collection it returns {} and
\* __init__ leaves the instance empty
FindLatest(i) ==
    /\ inst[i].pc = "idle"
    /\ inst' = [inst EXCEPT ![i] =
                  IF db.coll = <<>> THEN FreshInstance
                  ELSE [@ EXCEPT !.pc = "found", !.found = Newest(db.coll)]]
    /\ UNCHANGED <<db, net, one>>

\* get_latest, second request, and the rest of __init__: the instance
\* loads the document it read
DeleteAndLoad(i) ==
    /\ inst[i].pc = "found"
    /\ db' = [db EXCEPT !.coll = DeleteOthers(@, inst[i].found.id)]
    /\ inst' = [inst EXCEPT ![i] =
                  [mem |-> inst[i].found.data, pc |-> "idle",
                   found |-> NoDoc, base |-> inst[i].found.id,
                   wrote |-> FALSE]]
    /\ UNCHANGED <<net, one>>

\* instance i ends a method with outcome o: _commit_changes has inserted
\* the snapshot of its collections
Commit(i, o) ==
    /\ o.saved
    /\ inst' = [inst EXCEPT ![i].mem = Dump(o.rides, o.drivers, o.rejected),
                            ![i].wrote = TRUE]
    /\ db' = [coll |-> add_to_db(db.coll, db.nextId,
                                 Dump(o.rides, o.drivers, o.rejected)),
              nextId |-> db.nextId + 1, lastWriter |-> i]
    /\ UNCHANGED <<net, one>>

InstanceAddRides(i) ==
    /\ inst[i].pc = "idle"
    /\ db.nextId <= MaxDocs
    /\ \E b \in SharedRideBatches :
        \E o \in add_rides(inst[i].mem.rides, inst[i].mem.drivers,
                           inst[i].mem.rejected, FALSE, 0, b) :
            Commit(i, o)

InstanceAddDrivers(i) ==
    /\ inst[i].pc = "idle"
    /\ db.nextId <= MaxDocs
    /\ \E b \in SharedDriverBatches :
        \E o \in add_drivers(inst[i].mem.rides, inst[i].mem.drivers,
                             inst[i].mem.rejected, FALSE, 0, b) :
            Commit(i, o)

\* the single instance stays as constructed on the empty collection
InitTwo == Init /\ snapshot = NoDoc.data

NextTwo ==
    \E i \in Instances :
        \/ FindLatest(i)
        \/ DeleteAndLoad(i)
        \/ InstanceAddRides(i)
        \/ InstanceAddDrivers(i)

SpecTwo == InitTwo /\ [][NextTwo]_vars

(***************************************************************************)
(* The solver on one network of match(): it pushes flow along any path     *)
(* of positive residual capacity from the source to the sink until there   *)
(* is none.  Every such path crosses a driver -> ride edge of capacity 1,  *)
(* so each push moves one unit; the flow is the set F of the driver ->     *)
(* ride edges that carry their unit.                                       *)
(***************************************************************************)
\* the stores the networks are built from: every driver within 40 of
\* every ride, and any set of rejected pairs
FlowDrivers == <<NewDriver("d1", 0), NewDriver("d2", 5)>>
FlowRides == <<NewRide("r1", 0, -2, -1), NewRide("r2", 30, -2, 0)>>
Networks ==
    {BuildGraph(FlowRides, FlowDrivers, rej, 40, per_driver, per_ride) :
        rej \in SUBSET (DriverIds \X RideIds),
        per_driver \in {1, DefaultPerDriver},
        per_ride \in {1, DefaultPerRide}}

\* flow out of the source into driver i, and from ride j into the sink
IntoDriver(F, i) == Cardinality({e \in F : e[1] = i})
IntoSink(F, j) == Cardinality({e \in F : e[2] = j})

\* mutant of AugmentingPaths: a path never takes a unit back from an edge
ForwardPaths(g, F) ==
    {<<e>> : e \in {x \in g.edges \ F :
                       /\ IntoDriver(F, x[1]) < g.source
                       /\ IntoSink(F, x[2]) < g.sink}}

\* the simple paths of positive residual capacity from the source to the
\* sink, each given by its forward driver -> ride edges p[1], ..., p[k]:
\* source -> driver of p[1], and after p[m] either ride of p[m] -> sink
\* (m = k) or back along the edge from the driver of p[m+1] to the ride of
\* p[m], which carries a unit
AugmentingPaths(g, F) ==
    LET n == IF g.nd < g.nr THEN g.nd ELSE g.nr
        free == g.edges \ F
    IN {p \in UNION {[1..k -> free] : k \in 1..n} :
          /\ IntoDriver(F, p[1][1]) < g.source
          /\ IntoSink(F, p[Len(p)][2]) < g.sink
          /\ \A m \in 1..(Len(p) - 1) : <<p[m + 1][1], p[m][2]>> \in F
          /\ \A a, b \in DOMAIN p :
                a # b => p[a][1] # p[b][1] /\ p[a][2] # p[b][2]}

\* the flow after a unit is pushed along p
Push(F, p) ==
    (F \ {<<p[m + 1][1], p[m][2]>> : m \in 1..(Len(p) - 1)})
    \cup {p[m] : m \in DOMAIN p}

Augment ==
    /\ ~net.done
    /\ \E p \in AugmentingPaths(net.g, net.F) :
          net' = [net EXCEPT !.F = Push(net.F, p)]
    /\ UNCHANGED <<db, inst, one>>

\* no path is left: ford_fulkerson returns
Return ==
    /\ ~net.done
    /\ AugmentingPaths(net.g, net.F) = {}
    /\ net' = [net EXCEPT !.done = TRUE]
    /\ UNCHANGED <<db, inst, one>>

InitFlow ==
    /\ rides = <<>> /\ drivers = <<>> /\ rejected = {} /\ changed = FALSE
    /\ snapshot = NoDoc.data
    /\ now = 0 /\ steps = 0
    /\ last = Call("init", NoArgs,
                   Outcome(<<>>, <<>>, {}, FALSE, FALSE, TRUE, TRUE, 0, <<>>),
                   FALSE)
    /\ DbIdle
    /\ net \in {[g |-> g, F |-> {}, done |-> FALSE] : g \in Networks}

NextFlow == Augment \/ Return

SpecFlow == InitFlow /\ [][NextFlow]_vars

(***************************************************************************)
(* Properties.                                                             *)
(***************************************************************************)
\* the last call was match(), its pipeline ran and the call returned
MatchCompleted == last.op = "match" /\ last.passes > 0 /\ last.returned

\* ids of the drivers in a ride's possible_drivers
Candidates(ride) ==
    {ride.possible_drivers[k].driver : k \in DOMAIN ride.possible_drivers}

\* the number of rides whose possible_drivers holds driver id d
Offers(d) == Cardinality({i \in DOMAIN rides : d \in Candidates(rides[i])})

\* C1: after a completed matching run, no ride's possible_drivers list is
\* longer than the per-ride cap the caller passed, also when radius
\* widening re-ran the pipeline.
C1_PerRideCapKept ==
    MatchCompleted =>
        \A i \in DOMAIN rides :
            Len(rides[i].possible_drivers) <= last.args.per_ride

\* C2: after a completed matching run with per-driver cap k, no driver is
\* in the possible_drivers lists of more than k rides.
C2_PerDriverCapKept ==
    MatchCompleted =>
        \A d \in DriverIds : Offers(d) <= last.args.per_driver

RECURSIVE RerunBound(_)
\* ceil(log2(80 / t)) for an integer threshold t > 0: the least k with
\* t * 2^k >= 80
RerunBound(t) == IF t >= WidenLimit THEN 0 ELSE 1 + RerunBound(2 * t)

\* C3: a matching run started with any threshold below 80, also 0 or a
\* negative one, returns, and after at most ceil(log2(80 / threshold))
\* re-runs when that number is defined.
C3_WideningTerminates ==
    (last.op = "match" /\ last.passes > 0 /\ last.args.dist < WidenLimit) =>
        /\ last.returned
        /\ last.args.dist > 0 => last.passes - 1 <= RerunBound(last.args.dist)

\* C4: a driver rejected for a ride of the store is in that ride's
\* possible_drivers in no later state, while a ride with that id is stored
\* (a pair leaves the rejected set only when no ride has its ride id).
C4_RejectedNeverOffered ==
    \A pair \in rejected : \A i \in DOMAIN rides :
        rides[i].id = pair[2] => pair[1] \notin Candidates(rides[i])

\* this step is a call of one of the methods ops (not a day passing)
CallOf(ops) == last'.op \in ops /\ steps' # steps /\ now' = now

\* C5: a match() call without force_match that directly follows another
\* match() call reports that the algorithm was not run and leaves the
\* store, the changed flag and the snapshot as they were.
C5_SecondMatchSkipped ==
    [][(last.op = "match" /\ CallOf({"match"}) /\ ~last'.args.force) =>
          /\ last'.passes = 0
          /\ last'.returned
          /\ UNCHANGED <<rides, drivers, rejected, changed, snapshot>>]_vars

\* a skipped match() directly after a match(), on a store with candidates
C5_Witness ==
    /\ last.op = "match" /\ last.again
    /\ ~last.args.force /\ last.passes = 0
    /\ \E i \in DOMAIN rides : rides[i].possible_drivers # <<>>

\* C6: every ride with an assigned driver has an empty possible_drivers.
C6_AssignedHasNoCandidates ==
    \A i \in DOMAIN rides :
        rides[i].assigned_driver # None => rides[i].possible_drivers = <<>>

\* C7: a call of assign_driver_to_ride or remove_driver_from_ride that
\* returns False changes neither the store, nor the changed flag, nor the
\* snapshot.
C7_FailureChangesNothing ==
    [][(CallOf({"assign_driver_to_ride", "remove_driver_from_ride"})
        /\ ~last'.ok) =>
          /\ UNCHANGED <<rides, drivers, rejected, changed, snapshot>>
          /\ ~last'.saved]_vars

\* assign_driver_to_ride failed on a time conflict: both ids are stored
C7_Witness ==
    /\ last.op = "assign_driver_to_ride" /\ ~last.ok
    /\ last.args.driver_id \in Ids(drivers)
    /\ last.args.ride_id \in Ids(rides)
    /\ \E i \in DOMAIN drivers : drivers[i].unavailable_timings # <<>>

\* the pair the last call was made with
LastPair == <<last.args.driver_id, last.args.ride_id>>

RejectReturned == last.op = "add_rejected_pairing" /\ last.returned

C9_RejectedRefersToStoredRide ==
    /\ \A pair \in rejected : pair[2] \in Ids(rides)
    /\ \A pair \in snapshot.rejected : pair[2] \in Ids(snapshot.rides)

\* a commit pruned a ride by retention and purged a pair with it
C9_Witness ==
    last.gc.pruned > 0 /\ last.gc.purged > 0 /\ last.saved

UniqueIds(s) == \A i, j \in DOMAIN s : s[i].id = s[j].id => i = j

\* a ride without its candidate list, which every commit rebuilds
Core(r) == [r EXCEPT !.possible_drivers = <<>>]

Retained ==
    SelectSeq(rides, LAMBDA r : now - r.ride_end < RetentionDays)

ById(s, id) == s[Find(s, id)]

\* C11: remove_driver_from_ride(driver_id, ride_id) returns True exactly
\* when both ids are stored and the ride is assigned to that driver; after
\* a successful call the driver has no interval tagged ride_id and keeps
\* its other intervals in order, and a stored ride with that id has no
\* assigned driver.
C11_RemoveDriverFromRide ==
    [][CallOf({"remove_driver_from_ride"}) =>
        LET d == last'.args.driver_id
            r == last'.args.ride_id
        IN /\ last'.ok <=>
                /\ d \in Ids(drivers) /\ r \in Ids(rides)
                /\ ById(rides, r).assigned_driver = d
           /\ last'.ok =>
                /\ d \in Ids(drivers')
                /\ ById(drivers', d).unavailable_timings =
                      SelectSeq(ById(drivers, d).unavailable_timings,
                                LAMBDA tm : tm[3] # r)
                /\ \A i \in DOMAIN rides' :
                      rides'[i].id = r => rides'[i].assigned_driver = None]_vars

\* a driver was removed from a ride that is still stored
C11_Witness ==
    /\ last.op = "remove_driver_from_ride" /\ last.ok
    /\ last.args.ride_id \in Ids(rides)
    /\ ById(rides, last.args.ride_id).assigned_driver = None

\* C12: no driver has two overlapping intervals in unavailable_timings.
C12_TimingsNeverOverlap ==
    \A i \in DOMAIN drivers :
        LET ts == drivers[i].unavailable_timings
        IN \A a, b \in DOMAIN ts :
              a # b => ~Overlaps(ts[a][1], ts[a][2], ts[b][1], ts[b][2])

\* a driver was assigned a second ride, next to the one it already had
C12_Witness ==
    /\ last.op = "assign_driver_to_ride" /\ last.ok
    /\ \E i \in DOMAIN drivers : Len(drivers[i].unavailable_timings) >= 2

\* the methods that change the store
Mutating ==
    {"add_rides", "add_drivers", "delete_ride", "delete_driver",
     "assign_driver_to_ride", "remove_driver_from_ride",
     "add_rejected_pairing"}

\* the entries of a log that are of the given kind
OfKind(log, kind) == SelectSeq(log, LAMBDA e : e.kind = kind)

\* C14 as stated: a call of a mutating method appends exactly one entry to
\* the operation log, whether it succeeds or fails.
C14_OneLogEntry ==
    last.op \in Mutating => Len(last.logs) = 1

\* C14 amended: a call of a mutating method appends exactly one entry
\* about the operation, as the last entry of the call; a failing call
\* appends nothing else, and a call that commits appends before it one
\* match summary for each of the 1 to 4 pipeline passes of the commit.
C14_OneOperationEntry ==
    last.op \in Mutating =>
        /\ last.returned
        /\ Len(OfKind(last.logs, "operation")) = 1
        /\ last.logs[Len(last.logs)].kind = "operation"
        /\ Len(OfKind(last.logs, "match summary")) = last.passes
        /\ Len(last.logs) = last.passes + 1
        /\ IF last.saved THEN last.passes \in 1..4 ELSE last.passes = 0
        /\ ~last.ok => ~last.saved

\* a commit widened the radius and logged more than one match summary
C14_Witness ==
    /\ last.op \in Mutating /\ last.saved
    /\ Len(OfKind(last.logs, "match summary")) > 1

\* the match summaries of the last call, one per pipeline pass
Summaries == OfKind(last.logs, "match summary")

\* the threshold the first pass of the last call ran with
FirstDist == IF last.op = "match" THEN last.args.dist ELSE DefaultMaxDist

\* C16: when a matching run returns, every unassigned ride has a candidate
\* or the last pass ran with a threshold of at least 80; each pass after
\* the first ran with twice the threshold of the pass before; and the
\* candidate list the run leaves on an unassigned ride is that of the last
\* pass: no driver twice, every driver suitable at the last threshold, and
\* as many rides with candidates as the last summary counts.
C16_WidenedUntilMatched ==
    (last.passes > 0 /\ last.returned) =>
        LET n == Len(Summaries)
            final == Summaries[n].distance_limit
            um == {i \in DOMAIN rides : rides[i].assigned_driver = None}
        IN /\ n = last.passes
           /\ Cardinality(um) <= MaxUnmatched
           /\ \/ \A i \in um : rides[i].possible_drivers # <<>>
              \/ final >= WidenLimit
           /\ Summaries[1].distance_limit = FirstDist
           /\ \A k \in 1..(n - 1) :
                 /\ Summaries[k + 1].distance_limit
                       = 2 * Summaries[k].distance_limit
                 /\ Summaries[k].distance_limit < WidenLimit
                 /\ Summaries[k].rides_unmatched > 0
           /\ \A i \in um :
                 /\ Cardinality(Candidates(rides[i]))
                       = Len(rides[i].possible_drivers)
                 /\ \A c \in Candidates(rides[i]) :
                       /\ c \in Ids(drivers)
                       /\ _is_suitable(ById(drivers, c), rides[i], final,
                                       rejected)
           /\ Cardinality({i \in um : rides[i].possible_drivers # <<>>})
                 = Summaries[n].matches_made

\* a run widened the radius, and left one ride with a candidate and
\* another without
C16_Witness ==
    /\ last.passes > 1 /\ last.returned
    /\ \E i, j \in DOMAIN rides :
          /\ rides[i].assigned_driver = None
          /\ rides[j].assigned_driver = None
          /\ rides[i].possible_drivers # <<>>
          /\ rides[j].possible_drivers = <<>>

\* ids of the rides the intervals of a driver are tagged with
TimingTags(d) ==
    {d.unavailable_timings[k][3] : k \in DOMAIN d.unavailable_timings}

\* C18: a driver has an interval tagged with ride id r exactly when a ride
\* with id r is stored and is assigned to that driver.
C18_TimingsIffAssigned ==
    \A i \in DOMAIN drivers : \A r \in RideIds :
        r \in TimingTags(drivers[i])
          <=> \E j \in DOMAIN rides :
                 rides[j].id = r /\ rides[j].assigned_driver = drivers[i].id

\* C19: between calls the changed flag is false, and a match() call
\* without force_match ran no pipeline pass and logged nothing.
C19_ChangedClearBetweenCalls ==
    /\ changed = FALSE
    /\ (last.op = "match" /\ ~last.args.force) =>
          last.passes = 0 /\ last.logs = <<>> /\ last.returned

\* match() without force_match and with arguments other than the defaults
\* was skipped on a store with rides and drivers, after a call that
\* committed
C19_Witness ==
    /\ last.op = "match" /\ ~last.args.force /\ last.passes = 0
    /\ last.args.dist # DefaultMaxDist /\ last.args.per_ride # DefaultPerRide
    /\ rides # <<>> /\ drivers # <<>>
    /\ snapshot.rides = rides /\ snapshot.drivers = drivers

\* C20: an assigned ride is assigned to a stored driver, the candidates of
\* an unassigned ride are stored drivers, and after delete_driver no ride
\* is assigned to the deleted driver or has it as a candidate.
C20_DriversReferredToAreStored ==
    /\ \A i \in DOMAIN rides :
          IF rides[i].assigned_driver # None
          THEN rides[i].assigned_driver \in Ids(drivers)
          ELSE Candidates(rides[i]) \subseteq Ids(drivers)
    /\ last.op = "delete_driver" =>
          \A i \in DOMAIN rides :
              /\ rides[i].assigned_driver # last.args.driver_id
              /\ last.args.driver_id \notin Candidates(rides[i])

\* both instances loaded the same snapshot (or both found none), each has
\* committed since, and no construction is under way
BothCommitted ==
    /\ \A i \in Instances : inst[i].pc = "idle" /\ inst[i].wrote
    /\ \A i, j \in Instances : inst[i].base = inst[j].base

C17_LatestNeverDeleted ==
    db.nextId > 1 =>
        \E k \in DOMAIN db.coll : db.coll[k].id = db.nextId - 1

\* C15: the solver keeps a feasible flow, and whatever paths it chose,
\* when no path is left the number of driver -> ride edges that carry a
\* unit (the suggestions of the pass) is the greatest that any feasible
\* flow of the network has.
C15_FlowValueUnique ==
    /\ IsFlow(net.g, net.F)
    /\ net.done =>
          /\ AugmentingPaths(net.g, net.F) = {}
          /\ \A F \in SUBSET net.g.edges :
                IsFlow(net.g, F) => Cardinality(F) <= Cardinality(net.F)
          /\ net.F \in ford_fulkerson(net.g)

\* the solver returned on a network where a first path can block a
\* driver: caps 1 and 1, three edges, both rides served
C15_Witness ==
    /\ net.done
    /\ net.g.source = 1 /\ net.g.sink = 1
    /\ Cardinality(net.g.edges) = 3
    /\ Cardinality(net.F) = 2

====
